---- MODULE Spec2Model ----
(***************************************************************************)
(* Workflow orchestration engine of the text2query system:                 *)
(*   src/src/workflow.py                 Text2QueryWorkflow                *)
(*   src/src/helper/workflow_helpers.py  WorkflowRouter, StateManager      *)
(*   src/src/agents/human_in_the_loop.py HumanInTheLoopAgent               *)
(*   src/src/api/routes/query.py         REST and WebSocket transport      *)
(*   src/src/models/models.py            AgentState                        *)
(*                                                                         *)
(* One AgentState object is threaded through a run: node handlers and      *)
(* routing functions assign to its fields in place, exactly as the code    *)
(* is written.  The language model behind each agent is an input: its      *)
(* answer is drawn from a small set in every step.                         *)
(***************************************************************************)
EXTENDS Integers, Sequences, FiniteSets, TLC

VARIABLES
    run_mode,   \* "sync" (process_query, streaming=False) or "stream" (WebSocket session)
    client,     \* inputs explored in this session: "plain", "raising" or "free"
                \* (see Answers, FeedbackPayloads)
    st,         \* the AgentState of the session
    pc,         \* position of the engine / transport loop
    node,       \* node about to run (pc = "run") or node that ran last
    eng,        \* the graph run: "fresh", "resume", "running", "ended"
    steps,      \* node executions of the current graph run (recursion_limit)
    lastMsg,    \* type of the last message sent on the WebSocket
    cancelled,  \* the transport has observed a cancel message
    rounds,     \* feedback payloads the engine has applied so far
    analyses,   \* feedback analyses of the review agent answered freely so far
    approved,   \* observation: review type the client has just approved, until the
                \* resumed run takes its first routing decision ("none" otherwise)
    answered,   \* observation: the review and the feedback payload applied to it, until
                \* the first stage after the routing stage of the resumed run has run
    schema_rejections, \* observation: validator verdicts NO / schema_missing so far
    hist,       \* what the last step did (observation only, never read by the program):
                \* the kind of step, the node, whether the stage succeeded, whether
                \* a review stage analysed feedback in it, and whether that feedback
                \* suggested an item the knowledge base does not have
    sessions,   \* the concurrent POST /query requests served by the one workflow
                \* (SpecSessions): per request its AgentState and its position
    selected_databases, \* TableIdentifier._selected_databases, an attribute of the one
                \* agent object that every request uses
    workflow_state, \* the WorkflowState of the legacy query workflow (SpecLegacy)
    next_step,  \* what should_continue returned for it ("none": not yet evaluated)
    reviewed    \* observation: the review stages that have run since the last execution
                \* of their identifier, and table_identifier once it has run since the
                \* last execution of database_identifier

vars == <<run_mode, client, st, pc, node, eng, steps, lastMsg, cancelled, rounds, analyses,
          approved, answered, schema_rejections, hist, sessions, selected_databases,
          workflow_state, next_step, reviewed>>

----------------------------------------------------------------------------
(* Program constants *)

DefaultRetries == 3
DefaultStepRetries == 2
RecursionLimit == 20

\* resolution of the confidence values explored (confidence = c / ConfidenceScale)
ConfidenceScale == 100

\* Bound of the model: feedback payloads a client delivers in one session
MaxFeedbackRounds == 2

\* Bound of the model: feedback analyses whose answer is arbitrary; the
\* analyses after them answer with a plain approval or fail
MaxAnalyses == 1

END == "__end__"

ReviewTypes == {"databases", "tables"}

----------------------------------------------------------------------------
(* Python string operations used by the code, on TLA+ strings *)

EndsWith(s, suf) ==
    /\ Len(s) >= Len(suf)
    /\ SubSeq(s, Len(s) - Len(suf) + 1, Len(s)) = suf

StartsWith(s, pre) ==
    /\ Len(s) >= Len(pre)
    /\ SubSeq(s, 1, Len(pre)) = pre

\* Python: sub in s
Contains(s, sub) ==
    \E i \in 1..(Len(s) - Len(sub) + 1) : SubSeq(s, i, i + Len(sub) - 1) = sub

RECURSIVE RemoveAll(_, _)
\* Python: s.replace(sub, '')
RemoveAll(s, sub) ==
    IF Len(s) < Len(sub) \/ Len(s) = 0 THEN s
    ELSE IF SubSeq(s, 1, Len(sub)) = sub
         THEN RemoveAll(SubSeq(s, Len(sub) + 1, Len(s)), sub)
         ELSE SubSeq(s, 1, 1) \o RemoveAll(SubSeq(s, 2, Len(s)), sub)

LowerChar(c) ==
    CASE c = "A" -> "a" [] c = "B" -> "b" [] c = "C" -> "c" [] c = "D" -> "d"
      [] c = "G" -> "g" [] c = "I" -> "i" [] c = "M" -> "m" [] c = "P" -> "p"
      [] c = "Q" -> "q" [] c = "S" -> "s" [] c = "T" -> "t" [] c = "V" -> "v"
      [] OTHER -> c

RECURSIVE LowerUnderscore(_)
\* Python: s.lower().replace(' ', '_')
LowerUnderscore(s) ==
    IF Len(s) = 0 THEN s
    ELSE (IF SubSeq(s, 1, 1) = " " THEN "_" ELSE LowerChar(SubSeq(s, 1, 1)))
         \o LowerUnderscore(SubSeq(s, 2, Len(s)))

\* Python truthiness of an Optional[str]
Truthy(x) == x \notin {"none", ""}

\* Python: d.get(k, default)
Get(d, k, default) == IF k \in DOMAIN d THEN d[k] ELSE default

\* Python: d = dict(d); d[k] = v
SetKey(d, k, v) == [x \in (DOMAIN d) \cup {k} |-> IF x = k THEN v ELSE d[x]]

EmptyDict == [x \in {} |-> TRUE]

----------------------------------------------------------------------------
(* AgentState *)

StepKeys == {"database_identifier", "table_identifier", "column_identifier",
             "schema_builder", "query_planner", "query_generator",
             "query_validator", "metadata_agent", "database_human_review",
             "table_human_review"}

NoReview == [type |-> "none", items |-> <<>>]

\* AgentState(natural_language_query=..., interaction_mode=..., current_step="workflow_started", retries_left=3)
InitialState(interaction_mode, streaming) ==
    [ interaction_mode    |-> interaction_mode,
      api_mode            |-> (streaming /\ interaction_mode = "interactive"),
      current_step        |-> "workflow_started",
      retries_left        |-> DefaultRetries,
      step_retries_left   |-> [k \in StepKeys |-> DefaultStepRetries],
      is_metadata_query   |-> FALSE,
      relevant_databases  |-> <<>>,
      relevant_tables     |-> <<>>,
      relevant_columns    |-> <<>>,
      schema_context      |-> "none",
      query_plan          |-> "",
      generated_query     |-> "none",
      is_query_valid      |-> FALSE,
      issue_type          |-> "none",
      last_error_type     |-> "none",
      human_feedback      |-> "none",
      human_approvals     |-> EmptyDict,
      feedback_processed  |-> FALSE,
      last_modification_type |-> "none",
      user_message        |-> "none",
      metadata_response   |-> "none",
      pending_review      |-> NoReview,
      is_resuming         |-> FALSE,
      resume_start_node   |-> "none" ]

\* StateManager.update_state_with_preservation
UpdateStateWithPreservation(s, updates) ==
    LET preserved == {f \in {"retries_left", "is_query_valid"} : f \notin DOMAIN updates}
    IN  [f \in DOMAIN s |->
            IF f \in preserved THEN s[f]
            ELSE IF f \in DOMAIN updates THEN updates[f]
            ELSE s[f]]

\* AgentResult
ErrorResult == [success |-> FALSE, state_updates |-> EmptyDict]
SuccessResult(updates) == [success |-> TRUE, state_updates |-> updates]

\* agent.process(state) raised instead of returning an AgentResult
RaisedResult == [success |-> FALSE, state_updates |-> EmptyDict, raised |-> TRUE]

\* the except branch of the node handler is taken
Raised(result) == "raised" \in DOMAIN result

----------------------------------------------------------------------------
(* Knowledge base and the inputs the agents' language model can return *)

KBDatabases == {"d1", "d2", "d3"}
KBTables == [d \in KBDatabases |-> IF d = "d1" THEN {"t1", "t2"} ELSE {"t3"}]

DbLists == {<<>>, <<"d1", "d2">>}
TableLists == {<<>>, <<"d1.t1", "d1.t2">>}
ColumnLists == {<<>>, <<"t1.c1">>}

ReasonCodes == {"accepted", "schema_missing", "sql_generation_issue",
                "insufficient_data", "query_scope_issue", "data_type_mismatch",
                "join_relationship_error", "unknown"}

----------------------------------------------------------------------------
(* The agents: process(state) -> AgentResult.  ok = FALSE stands for an     *)
(* exception inside the agent, which every agent turns into an error result *)

\* RouterAgent.process
RouterProcess(s, ok, is_metadata) ==
    IF ~ok THEN ErrorResult
    ELSE SuccessResult([is_metadata_query |-> is_metadata, current_step |-> "query_routed"])

\* MetadataAgent.process
MetadataAgentProcess(s, ok) ==
    IF ~ok THEN ErrorResult
    ELSE SuccessResult([metadata_response |-> "response", current_step |-> "metadata_completed"])

\* DatabaseIdentifierAgent.process
DatabaseIdentifierProcess(s, ok, names) ==
    IF ~ok THEN ErrorResult
    ELSE SuccessResult([relevant_databases |-> names, current_step |-> "databases_identified"])

\* TableIdentifier.process
TableIdentifierProcess(s, ok, names) ==
    IF s.relevant_databases = <<>> \/ ~ok THEN ErrorResult
    ELSE SuccessResult([relevant_tables |-> names, current_step |-> "tables_identified"])

\* ColumnIdentifier.process
ColumnIdentifierProcess(s, ok, names) ==
    IF s.relevant_tables = <<>> \/ ~ok THEN ErrorResult
    ELSE SuccessResult([relevant_columns |-> names, current_step |-> "columns_identified"])

\* SchemaBuilderAgent.process
SchemaBuilderProcess(s, ok) ==
    IF s.relevant_databases = <<>> \/ s.relevant_tables = <<>> \/ ~ok THEN ErrorResult
    ELSE SuccessResult([schema_context |-> "context", current_step |-> "schema_built"])

\* QueryPlannerAgent.process
QueryPlannerProcess(s, ok) ==
    IF \/ s.relevant_databases = <<>>
       \/ s.relevant_tables = <<>>
       \/ s.relevant_columns = <<>>
       \/ ~ok
    THEN ErrorResult
    ELSE SuccessResult([query_plan |-> "plan", current_step |-> "query_planned"])

\* QueryGeneratorAgent.process
QueryGeneratorProcess(s, ok) ==
    IF \/ s.query_plan = ""
       \/ s.relevant_databases = <<>>
       \/ s.relevant_tables = <<>>
       \/ s.relevant_columns = <<>>
       \/ ~ok
    THEN ErrorResult
    ELSE SuccessResult([generated_query |-> "query", current_step |-> "query_generated"])

\* QueryValidatorAgent.process
QueryValidatorProcess(s, ok, verdict, reason_code) ==
    IF s.generated_query = "none" \/ ~ok THEN ErrorResult
    ELSE LET is_valid == (verdict = "YES")
         IN  SuccessResult([is_query_valid  |-> is_valid,
                            issue_type      |-> reason_code,
                            last_error_type |-> IF is_valid THEN "none" ELSE reason_code,
                            current_step    |-> "query_validated"])

----------------------------------------------------------------------------
(* Per-stage retry budget *)

\* the step_name each _run_* method passes to _run_agent
StepName(n) ==
    CASE n = "metadata_agent"      -> "Metadata Agent"
      [] n = "database_identifier" -> "Database Identification"
      [] n = "table_identifier"    -> "Table Identifier"
      [] n = "column_identifier"   -> "Column Identifier"
      [] n = "schema_builder"      -> "Schema Builder"
      [] n = "query_planner"       -> "Query Planning"
      [] n = "query_generator"     -> "Query Generation"
      [] n = "query_validator"     -> "Query Validation"

SuccessStep(n) ==
    CASE n = "metadata_agent"      -> "metadata_completed"
      [] n = "database_identifier" -> "database_identification_completed"
      [] n = "table_identifier"    -> "table_identification_completed"
      [] n = "column_identifier"   -> "column_identification_completed"
      [] n = "schema_builder"      -> "schema_building_completed"
      [] n = "query_planner"       -> "query_planning_completed"
      [] n = "query_generator"     -> "query_generation_completed"
      [] n = "query_validator"     -> "query_validation_completed"

ErrorStep(n) ==
    CASE n = "metadata_agent"      -> "metadata_error"
      [] n = "database_identifier" -> "database_identification"
      [] n = "table_identifier"    -> "table_identifier"
      [] n = "column_identifier"   -> "column_identifier"
      [] n = "schema_builder"      -> "schema_building"
      [] n = "query_planner"       -> "query_planning"
      [] n = "query_generator"     -> "query_generation"
      [] n = "query_validator"     -> "query_validation"

\* as HandleStepRetry, but the budget is lowered without the test that it is positive
HandleStepRetryNoFloor(s, step_name, error_step) ==
    LET step_key == LowerUnderscore(step_name)
    IN  IF step_key \in DOMAIN s.step_retries_left
        THEN [s EXCEPT !.step_retries_left[step_key] = @ - 1,
                       !.current_step = error_step \o "_retry",
                       !.last_error_type = "step_retry"]
        ELSE [s EXCEPT !.current_step = error_step \o "_failed"]

\* Text2QueryWorkflow._handle_step_retry
HandleStepRetry(s, step_name, error_step) ==
    LET step_key == LowerUnderscore(step_name)
    IN  IF step_key \in DOMAIN s.step_retries_left /\ s.step_retries_left[step_key] > 0
        THEN [s EXCEPT !.step_retries_left[step_key] = @ - 1,
                       !.current_step = error_step \o "_retry",
                       !.last_error_type = "step_retry"]
        ELSE [s EXCEPT !.current_step = error_step \o "_failed"]

\* as RunAgent, but a failed or raising process call is not booked
RunAgentUnbooked(s, result, step_name, success_step, error_step) ==
    LET s0 == [s EXCEPT !.current_step = "processing_" \o LowerUnderscore(step_name)]
    IN  IF result.success /\ DOMAIN result.state_updates # {}
        THEN [UpdateStateWithPreservation(s0, result.state_updates)
                 EXCEPT !.current_step = success_step]
        ELSE s0

\* Text2QueryWorkflow._run_agent
RunAgent(s, result, step_name, success_step, error_step) ==
    LET s0 == [s EXCEPT !.current_step = "processing_" \o LowerUnderscore(step_name)]
    IN  IF result.success /\ DOMAIN result.state_updates # {}
        THEN [UpdateStateWithPreservation(s0, result.state_updates)
                 EXCEPT !.current_step = success_step]
        ELSE HandleStepRetry(s0, step_name, error_step)

\* Text2QueryWorkflow._decrement_retry_and_log
DecrementRetryAndLog(s) == [s EXCEPT !.retries_left = @ - 1]

\* as RunQueryValidator, but a rejection leaves retries_left as it is
RunQueryValidatorNoDecrement(s, result) ==
    RunAgent(s, result, StepName("query_validator"),
             SuccessStep("query_validator"), ErrorStep("query_validator"))

\* Text2QueryWorkflow._run_query_validator
RunQueryValidator(s, result) ==
    LET result_state == RunAgent(s, result, StepName("query_validator"),
                                 SuccessStep("query_validator"), ErrorStep("query_validator"))
    IN  IF ~result_state.is_query_valid /\ result_state.retries_left > 0
        THEN DecrementRetryAndLog(result_state)
        ELSE result_state

\* Text2QueryWorkflow._run_router
RunRouter(s, result) ==
    LET s0 == [s EXCEPT !.current_step = "processing_routing"]
    IN  IF s0.is_resuming
        THEN [s0 EXCEPT !.current_step = "routing_completed"]
        ELSE IF result.success /\ DOMAIN result.state_updates # {}
             THEN [UpdateStateWithPreservation(s0, result.state_updates)
                      EXCEPT !.current_step = "routing_completed"]
             ELSE IF Raised(result)
             THEN [s0 EXCEPT !.current_step = "routing_error"]
             ELSE [s0 EXCEPT !.current_step = "routing_failed"]

----------------------------------------------------------------------------
(* Human-in-the-loop agent *)

\* Python: x in seq
InSeq(x, seq) == \E i \in 1..Len(seq) : seq[i] = x

\* Python: [x for x in seq if x not in removed]
RECURSIVE Without(_, _)
Without(seq, removed) ==
    IF seq = <<>> THEN <<>>
    ELSE IF Head(seq) \in removed THEN Without(Tail(seq), removed)
         ELSE <<Head(seq)>> \o Without(Tail(seq), removed)

\* Python: for item in items: if item not in current: current.append(item)
RECURSIVE AppendMissing(_, _)
AppendMissing(current, items) ==
    IF items = <<>> THEN current
    ELSE AppendMissing(IF InSeq(Head(items), current) THEN current
                       ELSE Append(current, Head(items)),
                       Tail(items))

\* Python: item.rsplit('.', 1) -> position of the last '.'
LastDot(item) ==
    LET dots == {i \in 1..Len(item) : SubSeq(item, i, i) = "."}
    IN  IF dots = {} THEN 0 ELSE CHOOSE i \in dots : \A j \in dots : j <= i

\* HumanInTheLoopAgent._check_table_exists
CheckTableExists(table_name, database_name) ==
    /\ database_name \in DOMAIN KBTables
    /\ table_name \in KBTables[database_name]

\* HumanInTheLoopAgent._validate_item_with_retriever
ValidateItemWithRetriever(confirmation_type, item, s) ==
    IF confirmation_type = "databases" THEN item \in KBDatabases
    ELSE IF Contains(item, ".")
         THEN CheckTableExists(SubSeq(item, LastDot(item) + 1, Len(item)),
                               SubSeq(item, 1, LastDot(item) - 1))
         ELSE \E i \in 1..Len(s.relevant_databases) :
                  CheckTableExists(item, s.relevant_databases[i])

\* HumanInTheLoopAgent._validate_feedback_suggestions: the valid suggestions
ValidSuggestions(confirmation_type, suggested, s) ==
    SelectSeq(suggested, LAMBDA item : ValidateItemWithRetriever(confirmation_type, item, s))

\* HumanInTheLoopAgent._validate_feedback_suggestions: the invalid suggestions
InvalidSuggestions(confirmation_type, suggested, s) ==
    SelectSeq(suggested, LAMBDA item : ~ValidateItemWithRetriever(confirmation_type, item, s))

\* HumanInTheLoopAgent._find_database_for_table
FindDatabaseForTable(table_name, relevant_dbs) ==
    LET hits == {i \in 1..Len(relevant_dbs) : CheckTableExists(table_name, relevant_dbs[i])}
    IN  IF hits = {} THEN "none"
        ELSE relevant_dbs[CHOOSE i \in hits : \A j \in hits : i <= j]

\* HumanInTheLoopAgent._normalize_items
NormalizeItems(confirmation_type, items, s) ==
    IF confirmation_type = "databases" THEN items
    ELSE [i \in 1..Len(items) |->
            IF Contains(items[i], ".") THEN items[i]
            ELSE LET found_db == FindDatabaseForTable(items[i], s.relevant_databases)
                 IN  IF found_db # "none" THEN found_db \o "." \o items[i] ELSE items[i]]

\* the removal set of modification_type 'remove'
ItemsToRemove(confirmation_type, suggested, current_items) ==
    LET items_to_remove == {suggested[i] : i \in 1..Len(suggested)}
    IN  IF confirmation_type = "tables"
        THEN items_to_remove \cup
             {current_items[j] : j \in {k \in 1..Len(current_items) :
                 \E item \in items_to_remove :
                     ~Contains(item, ".") /\ EndsWith(current_items[k], "." \o item)}}
        ELSE items_to_remove

\* HumanInTheLoopAgent._convert_feedback_to_state_updates
ConvertFeedbackToStateUpdates(s, confirmation_type, feedback) ==
    LET field == "relevant_" \o confirmation_type
        status == feedback.approval_status
        mtype == feedback.modification_type
        valid == ValidSuggestions(confirmation_type, feedback.suggested_values, s)
        invalid == InvalidSuggestions(confirmation_type, feedback.suggested_values, s)
        \* lines 339-364
        approvals0 == SetKey(s.human_approvals, confirmation_type, status = "APPROVE")
        u0 == IF status = "APPROVE"
              THEN [human_feedback |-> "none", feedback_processed |-> FALSE,
                    last_modification_type |-> "approve", human_approvals |-> approvals0]
              ELSE IF status = "REJECT"
              THEN [human_feedback |-> "none", feedback_processed |-> FALSE,
                    last_modification_type |-> "reject", human_approvals |-> approvals0]
              ELSE [human_feedback |-> feedback.feedback_summary,
                    last_modification_type |-> mtype, human_approvals |-> approvals0]
        \* lines 369-437
        current_items == s[field]
        items_to_add == NormalizeItems(confirmation_type, valid, s)
        added == AppendMissing(current_items, items_to_add)
        filtered == Without(current_items,
                            ItemsToRemove(confirmation_type, feedback.suggested_values, current_items))
        changes_made ==
            CASE mtype = "replace" ->
                    IF feedback.selected_values # <<>>
                    THEN feedback.selected_values # current_items
                    ELSE Len(current_items) > 0
              [] mtype = "add" -> Len(added) > Len(current_items)
              [] mtype = "remove" -> Len(filtered) # Len(current_items)
              [] OTHER -> FALSE
        u1 == CASE mtype = "replace" -> SetKey(u0, field, feedback.selected_values)
                [] mtype = "add" /\ Len(added) > Len(current_items) -> SetKey(u0, field, added)
                [] mtype = "remove" -> SetKey(u0, field, filtered)
                [] OTHER -> u0
        u2 == IF mtype = "add" /\ invalid # <<>>
              THEN SetKey(u1, "human_feedback",
                          IF u1.human_feedback = "none" THEN "None (Note: invalid not found)"
                          ELSE u1.human_feedback \o " (Note: invalid not found)")
              ELSE u1
        \* lines 439-451
    IN  IF status = "MODIFY"
        THEN IF changes_made
             THEN SetKey(SetKey(u2, "feedback_processed", TRUE), "human_feedback", "none")
             ELSE SetKey(SetKey(SetKey(u2, "feedback_processed", FALSE), "human_feedback", "none"),
                         "human_approvals", SetKey(approvals0, confirmation_type, TRUE))
        ELSE u2

\* HumanInTheLoopAgent.process; llm_ok = FALSE: the feedback analysis raised
HumanInTheLoopProcess(s, confirmation_type, llm_ok, feedback) ==
    LET items_data == s["relevant_" \o confirmation_type]
    IN  IF items_data = <<>>
        THEN SuccessResult([human_approvals |-> SetKey(EmptyDict, confirmation_type, TRUE),
                            human_feedback |-> "no_items"])
        ELSE IF Truthy(s.human_feedback)
        THEN IF llm_ok
             THEN SuccessResult(ConvertFeedbackToStateUpdates(s, confirmation_type, feedback))
             ELSE ErrorResult
        ELSE SuccessResult([pending_review |-> [type |-> confirmation_type, items |-> items_data],
                            human_approvals |-> SetKey(s.human_approvals, confirmation_type, FALSE),
                            human_feedback |-> "none"])

\* Text2QueryWorkflow._run_database_human_review / _run_table_human_review
RunHumanReview(s, result, label) ==
    LET s0 == [s EXCEPT !.current_step = "processing_" \o label]
    IN  IF result.success /\ DOMAIN result.state_updates # {}
        THEN [UpdateStateWithPreservation(s0, result.state_updates)
                 EXCEPT !.current_step = label \o "_completed"]
        ELSE IF Raised(result)
        THEN [s0 EXCEPT !.current_step = label \o "_error"]
        ELSE [s0 EXCEPT !.current_step = label \o "_failed"]

----------------------------------------------------------------------------
(* Routing functions.  Each returns the key it hands to the graph and the   *)
(* state as the function leaves it (some routers assign to state fields).   *)

Routed(key, s) == [key |-> key, st |-> s]

\* WorkflowRouter.check_permanent_failure (return_failed_step = False)
CheckPermanentFailure(s) ==
    IF EndsWith(s.current_step, "_failed") \/ EndsWith(s.current_step, "_error")
    THEN END ELSE ""

\* WorkflowRouter.route_after_router
RouteAfterRouter(s) ==
    IF s.is_resuming THEN Routed(s.resume_start_node, s)
    ELSE IF s.is_metadata_query THEN Routed("metadata_agent", s)
    ELSE Routed("database_identifier", s)

\* as RouteAfterDatabaseIdentifier, without the test of the interaction mode
RouteAfterDatabaseIdentifierAlwaysReview(s) ==
    IF CheckPermanentFailure(s) # "" THEN Routed(CheckPermanentFailure(s), s)
    ELSE IF s.last_error_type = "step_retry" /\ ~s.is_resuming
         THEN Routed("database_identifier", s)
    ELSE Routed("database_human_review", s)

\* WorkflowRouter.route_after_database_identifier
RouteAfterDatabaseIdentifier(s) ==
    IF CheckPermanentFailure(s) # "" THEN Routed(CheckPermanentFailure(s), s)
    ELSE IF s.last_error_type = "step_retry" /\ ~s.is_resuming
         THEN Routed("database_identifier", s)
    ELSE IF s.interaction_mode = "interactive" THEN Routed("database_human_review", s)
    ELSE Routed("table_identifier", s)

\* as RouteAfterDatabaseHumanFeedback, without the test of the approval
RouteAfterDatabaseHumanFeedbackNoApproval(s) ==
    IF s.feedback_processed /\ s.last_modification_type \in {"add", "remove", "modify"}
    THEN Routed("database_human_review", [s EXCEPT !.feedback_processed = FALSE])
    ELSE Routed("database_identifier", s)

\* WorkflowRouter.route_after_database_human_feedback
RouteAfterDatabaseHumanFeedback(s) ==
    IF Get(s.human_approvals, "databases", FALSE) THEN Routed("table_identifier", s)
    ELSE IF s.feedback_processed /\ s.last_modification_type \in {"add", "remove", "modify"}
         THEN Routed("database_human_review", [s EXCEPT !.feedback_processed = FALSE])
    ELSE Routed("database_identifier", s)

\* WorkflowRouter.route_after_table_identifier
\* as RouteAfterTableIdentifier, but every mode skips the review
RouteAfterTableIdentifierNoReview(s) ==
    IF CheckPermanentFailure(s) # "" THEN Routed(CheckPermanentFailure(s), s)
    ELSE IF s.last_error_type = "step_retry" /\ ~s.is_resuming
         THEN Routed("table_identifier", s)
    ELSE Routed("column_identifier", s)

RouteAfterTableIdentifier(s) ==
    IF CheckPermanentFailure(s) # "" THEN Routed(CheckPermanentFailure(s), s)
    ELSE IF s.last_error_type = "step_retry" /\ ~s.is_resuming
         THEN Routed("table_identifier", s)
    ELSE IF s.interaction_mode = "interactive" THEN Routed("table_human_review", s)
    ELSE Routed("column_identifier", s)

\* WorkflowRouter.route_after_table_human_feedback
RouteAfterTableHumanFeedback(s) ==
    IF Get(s.human_approvals, "tables", FALSE) THEN Routed("column_identifier", s)
    ELSE IF s.feedback_processed /\ s.last_modification_type \in {"add", "remove", "modify"}
         THEN Routed("table_human_review", [s EXCEPT !.feedback_processed = FALSE])
    ELSE Routed("table_identifier", s)

\* WorkflowRouter._get_next_step_from_current
GetNextStepFromCurrent(s) ==
    IF Contains(s.current_step, "column_identification_completed") THEN "schema_builder"
    ELSE IF Contains(s.current_step, "schema_building_completed") THEN "query_planner"
    ELSE IF Contains(s.current_step, "query_planning_completed") THEN "query_generator"
    ELSE IF Contains(s.current_step, "query_generation_completed") THEN "query_validator"
    ELSE END

\* WorkflowRouter.route_after_pipeline_step
RouteAfterPipelineStep(s) ==
    IF s.last_error_type = "step_retry" /\ EndsWith(s.current_step, "_retry")
    THEN Routed(RemoveAll(s.current_step, "_retry"), s)
    ELSE IF CheckPermanentFailure(s) # "" THEN Routed(CheckPermanentFailure(s), s)
    ELSE Routed(GetNextStepFromCurrent(s), s)

\* WorkflowRouter.route_after_metadata_step
RouteAfterMetadataStep(s) ==
    IF s.last_error_type = "step_retry" THEN Routed("metadata_agent", s)
    ELSE IF CheckPermanentFailure(s) # "" THEN Routed(CheckPermanentFailure(s), s)
    ELSE Routed(END, s)

\* as HandleExhaustedRetries, but the advisory message is not set
HandleExhaustedRetriesNoMessage(s) ==
    LET s1 == IF s.generated_query # "none"
              THEN [s EXCEPT !.generated_query = "query_with_issues"]
              ELSE s
    IN  [s1 EXCEPT !.current_step = "max_retries_exhausted"]

\* Text2QueryWorkflow._handle_exhausted_retries (with _update_query_with_validation_feedback)
HandleExhaustedRetries(s) ==
    LET s1 == IF s.generated_query # "none"
              THEN [s EXCEPT !.generated_query = "query_with_issues",
                             !.user_message = "advisory"]
              ELSE s
    IN  [s1 EXCEPT !.current_step = "max_retries_exhausted"]

\* as RouteAfterValidation, without the test of is_query_valid
RouteAfterValidationNoValidTest(s) ==
    LET issue_type == IF s.issue_type # "none" THEN s.issue_type ELSE s.last_error_type
    IN  IF s.retries_left <= 0
        THEN Routed("end", HandleExhaustedRetries(s))
        ELSE IF issue_type = "insufficient_data"
        THEN Routed("database_identifier",
                    [s EXCEPT !.current_step = "retry_due_to_insufficient_data"])
        ELSE IF issue_type = "schema_missing"
        THEN Routed("table_identifier", [s EXCEPT !.current_step = "route_to_table_identifier"])
        ELSE IF issue_type = "query_scope_issue"
        THEN Routed("database_identifier",
                    [s EXCEPT !.current_step = "route_to_database_identifier_scope_issue"])
        ELSE IF issue_type \in {"sql_generation_issue", "data_type_mismatch",
                                "join_relationship_error"}
        THEN Routed("query_planner",
                    [s EXCEPT !.current_step = "route_to_query_planner_" \o issue_type])
        ELSE Routed("database_identifier", [s EXCEPT !.current_step = "retry_unknown_issue"])

\* Text2QueryWorkflow._route_after_validation
RouteAfterValidation(s) ==
    LET issue_type == IF s.issue_type # "none" THEN s.issue_type ELSE s.last_error_type
    IN  IF s.is_query_valid
        THEN Routed("end", [s EXCEPT !.current_step = "workflow_completed"])
        ELSE IF s.retries_left <= 0
        THEN Routed("end", HandleExhaustedRetries(s))
        ELSE IF issue_type = "insufficient_data"
        THEN Routed("database_identifier",
                    [s EXCEPT !.current_step = "retry_due_to_insufficient_data"])
        ELSE IF issue_type = "schema_missing"
        THEN Routed("table_identifier", [s EXCEPT !.current_step = "route_to_table_identifier"])
        ELSE IF issue_type = "query_scope_issue"
        THEN Routed("database_identifier",
                    [s EXCEPT !.current_step = "route_to_database_identifier_scope_issue"])
        ELSE IF issue_type \in {"sql_generation_issue", "data_type_mismatch",
                                "join_relationship_error"}
        THEN Routed("query_planner",
                    [s EXCEPT !.current_step = "route_to_query_planner_" \o issue_type])
        ELSE Routed("database_identifier", [s EXCEPT !.current_step = "retry_unknown_issue"])

\* the routing function attached to each node in _create_workflow
RouteAfter(n, s) ==
    CASE n = "router"                -> RouteAfterRouter(s)
      [] n = "database_identifier"   -> RouteAfterDatabaseIdentifier(s)
      [] n = "database_human_review" -> RouteAfterDatabaseHumanFeedback(s)
      [] n = "table_identifier"      -> RouteAfterTableIdentifier(s)
      [] n = "table_human_review"    -> RouteAfterTableHumanFeedback(s)
      [] n = "metadata_agent"        -> RouteAfterMetadataStep(s)
      [] n = "query_validator"       -> RouteAfterValidation(s)
      [] OTHER                       -> RouteAfterPipelineStep(s)

Nodes == {"router", "metadata_agent", "database_identifier", "database_human_review",
          "table_identifier", "table_human_review", "column_identifier",
          "schema_builder", "query_planner", "query_generator", "query_validator"}

\* the keys of the path map given to add_conditional_edges for each node
PathKeys(n) ==
    CASE n = "router"                -> (Nodes \ {"router"}) \cup {"end"}
      [] n = "metadata_agent"        -> {"metadata_agent", END}
      [] n = "database_identifier"   -> {"database_human_review", "table_identifier"}
      [] n = "database_human_review" -> {"database_human_review", "database_identifier",
                                         "table_identifier"}
      [] n = "table_identifier"      -> {"table_human_review", "column_identifier"}
      [] n = "table_human_review"    -> {"table_human_review", "table_identifier",
                                         "column_identifier"}
      [] n = "column_identifier"     -> {"column_identifier", "schema_builder", END}
      [] n = "schema_builder"        -> {"schema_builder", "query_planner", END}
      [] n = "query_planner"         -> {"query_planner", "query_generator", END}
      [] n = "query_generator"       -> {"query_generator", "query_validator", END}
      [] n = "query_validator"       -> {"database_identifier", "table_identifier",
                                         "query_planner", "end"}

\* the node a path-map key stands for
PathTarget(key) == IF key = "end" THEN END ELSE key

----------------------------------------------------------------------------
(* Resume *)

\* Text2QueryWorkflow._determine_resume_node
DetermineResumeNode(s) ==
    LET current_step == s.current_step
        approvals == s.human_approvals
        step_to_node ==
            [ routing_completed                 |-> "database_identifier",
              database_identification_completed |-> "table_identifier",
              database_review_completed         |-> "table_identifier",
              table_identification_completed    |-> "column_identifier",
              table_review_completed            |-> "column_identifier",
              column_identification_completed   |-> "schema_builder",
              schema_building_completed         |-> "query_planner",
              query_planning_completed          |-> "query_generator",
              query_generation_completed        |-> "query_validator",
              query_validation_completed        |-> "end",
              database_identification_failed    |-> "database_identifier",
              table_identifier_failed           |-> "table_identifier",
              column_identifier_failed          |-> "column_identifier",
              schema_building_failed            |-> "schema_builder",
              query_planning_failed             |-> "query_planner",
              query_generation_failed           |-> "query_generator",
              query_validation_failed           |-> "query_validator" ]
        issue_type == IF s.issue_type # "none" THEN s.issue_type ELSE s.last_error_type
    IN  IF current_step \in {"workflow_completed", "workflow_failed", "max_retries_exhausted"}
        THEN "end"
        \* priority 1: feedback to process
        ELSE IF Truthy(s.human_feedback) /\ ~EndsWith(current_step, "_completed")
                /\ current_step # "database_review_completed"
        THEN "database_human_review"
        \* pending reviews
        ELSE IF ~Get(approvals, "databases", FALSE) /\ s.relevant_databases # <<>>
        THEN "database_human_review"
        ELSE IF ~Get(approvals, "tables", FALSE) /\ s.relevant_tables # <<>>
        THEN "table_human_review"
        \* validation routing
        ELSE IF current_step = "query_validation_completed" /\ ~s.is_query_valid
        THEN IF issue_type = "insufficient_data" THEN "database_identifier"
             ELSE IF issue_type = "schema_missing" THEN "table_identifier"
             ELSE IF issue_type \in {"sql_generation_issue", "data_type_mismatch",
                                     "join_relationship_error"} THEN "query_planner"
             ELSE "database_identifier"
        ELSE IF (StartsWith(current_step, "retry_") \/ StartsWith(current_step, "route_to_"))
                /\ (\/ Contains(current_step, "insufficient_data")
                    \/ Contains(current_step, "table_identifier")
                    \/ Contains(current_step, "query_planner")
                    \/ Contains(current_step, "database_identifier"))
        THEN IF Contains(current_step, "insufficient_data") THEN "database_identifier"
             ELSE IF Contains(current_step, "table_identifier") THEN "table_identifier"
             ELSE IF Contains(current_step, "query_planner") THEN "query_planner"
             ELSE "database_identifier"
        ELSE IF current_step \in DOMAIN step_to_node
        THEN IF current_step = "table_review_completed" /\ ~Get(approvals, "tables", TRUE)
             THEN "table_identifier"
             ELSE IF current_step = "database_review_completed"
                     /\ ~Get(approvals, "databases", TRUE)
             THEN "database_identifier"
             ELSE step_to_node[current_step]
        \* fallback on the data available
        ELSE IF s.generated_query # "none" THEN "query_validator"
        ELSE IF s.query_plan # "" THEN "query_generator"
        ELSE IF s.schema_context # "none" THEN "query_planner"
        ELSE IF s.relevant_columns # <<>> THEN "schema_builder"
        ELSE IF s.relevant_tables # <<>> THEN "column_identifier"
        ELSE IF s.relevant_databases # <<>> THEN "table_identifier"
        ELSE "database_identifier"

\* Text2QueryWorkflow.resume_from_state: the state the resumed graph run starts from
ResumeFromState(s) ==
    [s EXCEPT !.is_resuming = TRUE, !.resume_start_node = DetermineResumeNode(s)]

----------------------------------------------------------------------------
(* Node handlers *)

DefaultFeedback ==
    [approval_status |-> "APPROVE", modification_type |-> "approve",
     selected_values |-> <<>>, suggested_values |-> <<>>, feedback_summary |-> "summary"]

DefaultAnswer ==
    [ok |-> TRUE, raises |-> FALSE, meta |-> FALSE, names |-> <<>>, verdict |-> "YES",
     code |-> "accepted", fb |-> DefaultFeedback]

SelectedChoices(confirmation_type) ==
    IF confirmation_type = "databases" THEN {<<>>, <<"d1">>} ELSE {<<>>, <<"d1.t1">>}

SuggestedChoices(confirmation_type) ==
    IF confirmation_type = "databases" THEN {<<>>, <<"d2">>, <<"d3">>, <<"dx">>}
    ELSE {<<>>, <<"t2">>, <<"d2.t3">>, <<"d1.tx">>}

\* HumanFeedback, as its validators admit it
HumanFeedbacks(confirmation_type) ==
    [approval_status : {"APPROVE", "MODIFY", "REJECT"},
     modification_type : {"approve", "replace", "add", "remove", "modify"},
     selected_values : SelectedChoices(confirmation_type),
     suggested_values : SuggestedChoices(confirmation_type),
     feedback_summary : {"summary"}]

ReviewType(n) == IF n = "database_human_review" THEN "databases" ELSE "tables"

\* The inputs are explored in two classes of session, to keep their product
\* small.  "plain": the client answers a review with a well-formed approve or
\* reject (no text, no items); every agent may fail and the validator answers
\* anything.  "free": the client sends any payload and the feedback analysis
\* answers anything; the other agents do not fail and the validator's
\* verdicts are the few of FreeVerdicts.  "raising": a synchronous run; as
\* "plain", and the process call of an agent may also raise.
FreeVerdicts ==
    {[verdict |-> "YES", code |-> "accepted"],
     [verdict |-> "NO", code |-> "schema_missing"],
     [verdict |-> "NO", code |-> "sql_generation_issue"]}

Verdicts(c) ==
    IF c = "free" THEN FreeVerdicts
    ELSE [verdict : {"YES", "NO"}, code : ReasonCodes]

\* HumanInTheLoopAgent.process: the node analyses feedback with the language model
Analyses(n, s) ==
    /\ n \in {"database_human_review", "table_human_review"}
    /\ s["relevant_" \o ReviewType(n)] # <<>>
    /\ Truthy(s.human_feedback)

\* an agent's own failure: process returns an error result (its language model
\* raised and the agent caught it) or process itself raises
Failures(c) ==
    IF c = "free" THEN {}
    ELSE IF c = "raising"
    THEN {[DefaultAnswer EXCEPT !.ok = FALSE],
          [DefaultAnswer EXCEPT !.ok = FALSE, !.raises = TRUE]}
    ELSE {[DefaultAnswer EXCEPT !.ok = FALSE]}

\* what the language model (or the agent's own failure) can answer at node n
Answers(n, s, c, free_analysis) ==
    CASE n = "router" ->
            IF s.is_resuming THEN {DefaultAnswer}
            ELSE {DefaultAnswer, [DefaultAnswer EXCEPT !.meta = TRUE]} \cup Failures(c)
      [] n = "database_identifier" ->
            {[DefaultAnswer EXCEPT !.names = l] : l \in DbLists} \cup Failures(c)
      [] n = "table_identifier" ->
            {[DefaultAnswer EXCEPT !.names = l] : l \in TableLists} \cup Failures(c)
      [] n = "column_identifier" ->
            {[DefaultAnswer EXCEPT !.names = l] : l \in ColumnLists} \cup Failures(c)
      [] n = "query_validator" ->
            {[DefaultAnswer EXCEPT !.verdict = v.verdict, !.code = v.code] : v \in Verdicts(c)}
                \cup Failures(c)
      [] n \in {"database_human_review", "table_human_review"} ->
            IF Analyses(n, s)
            THEN {[DefaultAnswer EXCEPT !.fb = f] :
                     f \in IF free_analysis THEN HumanFeedbacks(ReviewType(n))
                           ELSE {DefaultFeedback}}
                    \cup {[DefaultAnswer EXCEPT !.ok = FALSE]}
            ELSE {DefaultAnswer} \cup (Failures(c) \ {[DefaultAnswer EXCEPT !.ok = FALSE]})
      [] OTHER -> {DefaultAnswer} \cup Failures(c)

\* agent.process(state) of the agent behind node n
AgentResultOf(n, s, a) ==
    IF a.raises THEN RaisedResult ELSE
    CASE n = "router"                -> RouterProcess(s, a.ok, a.meta)
      [] n = "metadata_agent"        -> MetadataAgentProcess(s, a.ok)
      [] n = "database_identifier"   -> DatabaseIdentifierProcess(s, a.ok, a.names)
      [] n = "database_human_review" -> HumanInTheLoopProcess(s, "databases", a.ok, a.fb)
      [] n = "table_identifier"      -> TableIdentifierProcess(s, a.ok, a.names)
      [] n = "table_human_review"    -> HumanInTheLoopProcess(s, "tables", a.ok, a.fb)
      [] n = "column_identifier"     -> ColumnIdentifierProcess(s, a.ok, a.names)
      [] n = "schema_builder"        -> SchemaBuilderProcess(s, a.ok)
      [] n = "query_planner"         -> QueryPlannerProcess(s, a.ok)
      [] n = "query_generator"       -> QueryGeneratorProcess(s, a.ok)
      [] n = "query_validator"       -> QueryValidatorProcess(s, a.ok, a.verdict, a.code)

\* the handler registered for node n in _create_workflow (_run_router .. _run_query_validator)
NodeHandler(n, s, a) ==
    CASE n = "router"                -> RunRouter(s, AgentResultOf(n, s, a))
      [] n = "database_human_review" -> RunHumanReview(s, AgentResultOf(n, s, a), "database_review")
      [] n = "table_human_review"    -> RunHumanReview(s, AgentResultOf(n, s, a), "table_review")
      [] n = "query_validator"       -> RunQueryValidator(s, AgentResultOf(n, s, a))
      [] OTHER -> RunAgent(s, AgentResultOf(n, s, a), StepName(n), SuccessStep(n), ErrorStep(n))

----------------------------------------------------------------------------
(* Transport: feedback payloads of the WebSocket client *)

FeedbackPayloads(c, pending_type) ==
    IF c = "free"
    THEN [review_type : {"databases", "tables", ""},
          action : {"approve", "modify", "reject"},
          approved_items : {<<>>, <<"d1">>},
          feedback_text : {"none", "text"}]
    ELSE [review_type : {pending_type},
          action : {"approve", "reject"},
          approved_items : {<<>>},
          feedback_text : {"none"}]

\* a hitl_feedback message of the client
FeedbackMessage(checkpoint_id, payload) ==
    [type |-> "hitl_feedback", checkpointId |-> checkpoint_id, payload |-> payload]

OtherMessage == [type |-> "other"]

\* _handle_hitl_checkpoint: checkpoint_id = str(uuid.uuid4()), a fresh value
\* for every checkpoint; here the number of the checkpoint in its session
\* (every earlier checkpoint of the session has ended with applied feedback)
CheckpointId(applied) == applied + 1

\* feedback messages delivered again: they carry the id of a checkpoint that
\* has been answered, the `applied` first ones of the session
RedeliveredMessages(c, applied) ==
    {FeedbackMessage(k, f) : k \in 1..applied,
                             f \in UNION {FeedbackPayloads(c, t) : t \in ReviewTypes}}

\* what the client can send while checkpoint checkpoint_id is pending: feedback
\* for it, feedback it has delivered before, or something else
HitlMessages(c, pending_type, checkpoint_id) ==
    {FeedbackMessage(checkpoint_id, f) : f \in FeedbackPayloads(c, pending_type)}
        \cup RedeliveredMessages(c, checkpoint_id - 1) \cup {OtherMessage}

\* what _check_for_cancellation can read (it looks at the type only): a
\* cancel message, nothing before the timeout, feedback delivered again, or
\* something else
CheckMessages(applied) ==
    {[type |-> "cancel"], OtherMessage, [type |-> "timeout"]}
        \cup (IF applied > 0 THEN {[type |-> "hitl_feedback"]} ELSE {})

\* as AcceptsFeedback, without the test of the checkpoint id
AcceptsFeedbackAnyCheckpoint(message, checkpoint_id) ==
    message.type = "hitl_feedback"

\* _handle_hitl_checkpoint: the two tests a message passes before it is applied
AcceptsFeedback(message, checkpoint_id) ==
    /\ message.type = "hitl_feedback"
    /\ message.checkpointId = checkpoint_id

\* as ApplyHitlFeedback, without the early return on a review_type that is
\* neither databases nor tables
ApplyHitlFeedbackAnyType(s, feedback) ==
    LET s1 == [s EXCEPT
                 !.human_approvals = SetKey(@, feedback.review_type, feedback.action = "approve"),
                 !.human_feedback = feedback.feedback_text]
    IN  IF feedback.approved_items # <<>> /\ feedback.review_type \in ReviewTypes
        THEN [s1 EXCEPT !["relevant_" \o feedback.review_type] = feedback.approved_items]
        ELSE s1

\* _apply_hitl_feedback
ApplyHitlFeedback(s, feedback) ==
    IF feedback.review_type \notin {"databases", "tables"} THEN s
    ELSE LET s1 == [s EXCEPT
                      !.human_approvals = SetKey(@, feedback.review_type, feedback.action = "approve"),
                      !.human_feedback = feedback.feedback_text]
         IN  IF feedback.approved_items # <<>>
             THEN [s1 EXCEPT !["relevant_" \o feedback.review_type] = feedback.approved_items]
             ELSE s1

----------------------------------------------------------------------------
(* The state machine *)

Observed(act, n, ok) ==
    [act |-> act, node |-> n, ok |-> ok, analysed |-> FALSE, invalid |-> FALSE]

NoAnswer == [review |-> NoReview]

\* a step of the transport between a stage and the routing decision after it
Relayed(act) == [Observed(act, node, TRUE) EXCEPT !.analysed = hist.analysed]

\* generated_query of the legacy WorkflowState: None (or the key is absent, which
\* state.get answers with None), a value that is no SQLQuery, or an SQLQuery with
\* its confidence, a float, counted here in steps of 1 / ConfidenceScale from
\* below 0 to above 1
GeneratedQueries ==
    {[type |-> "NoneType"], [type |-> "dict"]}
        \cup {[type |-> "SQLQuery", confidence |-> c] : c \in -1 .. ConfidenceScale + 1}

WorkflowStates == [generated_query : GeneratedQueries]

\* the requests of SpecSessions
Sessions == {"A", "B"}

\* query (POST /query): process_query(user_query, interaction_mode="ask") has built
\* its AgentState and not yet invoked the graph; `prompt` is the local variable
\* selected_databases of TableIdentifier._retrieve_table_chunks
NewSession ==
    [st |-> InitialState("ask", FALSE), pc |-> "start", node |-> "none", steps |-> 0,
     prompt |-> <<>>]

\* the engine and the transport of a session before its first step
InitEngine ==
    /\ run_mode \in {"sync", "stream"}
    /\ \E interaction_mode \in {"ask", "interactive"} :
          /\ st = InitialState(interaction_mode, run_mode = "stream")
          /\ client \in IF run_mode = "sync" THEN {"raising"}
                         ELSE IF interaction_mode = "interactive" THEN {"plain", "free"}
                         ELSE {"plain"}
    /\ pc = IF run_mode = "stream" THEN "check" ELSE "advance"
    /\ node = "none"
    /\ eng = "fresh"
    /\ steps = 0
    /\ lastMsg = IF run_mode = "stream" THEN "connected" ELSE "none"
    /\ cancelled = FALSE
    /\ rounds = 0
    /\ analyses = 0
    /\ approved = "none"
    /\ answered = NoAnswer
    /\ schema_rejections = 0
    /\ hist = Observed("init", "none", TRUE)
    /\ reviewed = {}

Init ==
    /\ InitEngine
    /\ sessions = [k \in Sessions |-> NewSession]
    /\ selected_databases = <<>>
    /\ workflow_state = [generated_query |-> [type |-> "NoneType"]]
    /\ next_step = "none"

\* as CheckForCancellation, but the loop goes on after `cancelled` was sent
CheckForCancellationNoBreak ==
    /\ run_mode = "stream" /\ pc = "check"
    /\ \E message \in CheckMessages(rounds) :
          IF message.type = "cancel"
          THEN /\ lastMsg' = "cancelled"
               /\ cancelled' = TRUE
               /\ pc' = "advance"
               /\ hist' = Observed("cancel", node, TRUE)
          ELSE /\ pc' = "advance"
               /\ hist' = Relayed(IF message.type = "hitl_feedback" THEN "redelivery"
                                  ELSE "check")
               /\ UNCHANGED <<lastMsg, cancelled>>
    /\ UNCHANGED <<run_mode, client, st, node, eng, steps, rounds, analyses, approved, answered, schema_rejections>>
    /\ UNCHANGED <<sessions, selected_databases, workflow_state, next_step, reviewed>>

\* _process_workflow_stream: _check_for_cancellation before each next(stream)
CheckForCancellation ==
    /\ run_mode = "stream" /\ pc = "check"
    /\ \E message \in CheckMessages(rounds) :
          IF message.type = "cancel"
          THEN /\ lastMsg' = "cancelled"
               /\ cancelled' = TRUE
               /\ pc' = "done"
               /\ hist' = Observed("cancel", node, TRUE)
          ELSE /\ pc' = "advance"
               /\ hist' = Relayed(IF message.type = "hitl_feedback" THEN "redelivery"
                                  ELSE "check")
               /\ UNCHANGED <<lastMsg, cancelled>>
    /\ UNCHANGED <<run_mode, client, st, node, eng, steps, rounds, analyses, approved, answered, schema_rejections>>
    /\ UNCHANGED <<sessions, selected_databases, workflow_state, next_step, reviewed>>

\* process_query / _process_query_stream: the graph run starts at START -> router
StartRun ==
    /\ pc = "advance" /\ eng = "fresh"
    /\ node' = "router"
    /\ steps' = 0
    /\ eng' = "running"
    /\ pc' = "run"
    /\ hist' = Observed("start", "router", TRUE)
    /\ UNCHANGED <<run_mode, client, st, lastMsg, cancelled, rounds, analyses, approved, answered, schema_rejections>>
    /\ UNCHANGED <<sessions, selected_databases, workflow_state, next_step, reviewed>>

\* resume_from_state: a new graph run on the checkpointed state
StartResume ==
    /\ pc = "advance" /\ eng = "resume"
    /\ st' = ResumeFromState(st)
    /\ node' = "router"
    /\ steps' = 0
    /\ eng' = "running"
    /\ pc' = "run"
    /\ hist' = Observed("resume", "router", TRUE)
    /\ UNCHANGED <<run_mode, client, lastMsg, cancelled, rounds, analyses, approved, answered, schema_rejections>>
    /\ UNCHANGED <<sessions, selected_databases, workflow_state, next_step, reviewed>>

\* a node handler runs
RunNode ==
    /\ pc = "run"
    /\ analyses' = IF Analyses(node, st) /\ analyses < MaxAnalyses
                   THEN analyses + 1 ELSE analyses
    /\ \E a \in Answers(node, st, client, analyses < MaxAnalyses) :
          /\ st' = NodeHandler(node, st, a)
          /\ schema_rejections' =
                IF /\ node = "query_validator"
                   /\ AgentResultOf(node, st, a).success
                   /\ a.verdict = "NO" /\ a.code = "schema_missing"
                THEN schema_rejections + 1 ELSE schema_rejections
          /\ hist' = [Observed("run", node,
                               (node = "router" /\ st.is_resuming)
                                 \/ (AgentResultOf(node, st, a).success
                                     /\ DOMAIN AgentResultOf(node, st, a).state_updates # {}))
                         EXCEPT !.analysed = Analyses(node, st),
                                !.invalid = /\ Analyses(node, st)
                                            /\ InvalidSuggestions(ReviewType(node),
                                                   a.fb.suggested_values, st) # <<>>]
    /\ steps' = steps + 1
    /\ pc' = IF run_mode = "stream" THEN "emit" ELSE "advance"
    /\ answered' = IF node = "router" THEN answered ELSE NoAnswer
    /\ UNCHANGED <<run_mode, client, node, eng, lastMsg, cancelled, rounds, approved>>
    /\ reviewed' = IF node = "database_identifier" THEN {}
                   ELSE IF node = "table_identifier"
                   THEN (reviewed \ {"table_human_review"}) \cup {"table_identifier"}
                   ELSE IF node \in {"database_human_review", "table_human_review"}
                   THEN reviewed \cup {node}
                   ELSE reviewed
    /\ UNCHANGED <<sessions, selected_databases, workflow_state, next_step>>

\* as Route, but the graph run has no recursion limit
RouteUncapped ==
    /\ pc = "advance" /\ eng = "running"
    /\ LET r == RouteAfter(node, st)
           raised == r.key \notin PathKeys(node)
       IN  IF raised
           THEN /\ st' = [r.st EXCEPT !.current_step = "workflow_failed"]
                /\ eng' = "ended"
                /\ pc' = IF run_mode = "stream" THEN "emit" ELSE "done"
                /\ hist' = Observed("raise", node, FALSE)
                /\ UNCHANGED node
           ELSE IF PathTarget(r.key) = END
           THEN /\ st' = r.st
                /\ eng' = "ended"
                /\ pc' = IF run_mode = "stream" THEN "finish" ELSE "done"
                /\ hist' = Observed("end", node, TRUE)
                /\ UNCHANGED node
           ELSE /\ st' = r.st
                /\ node' = PathTarget(r.key)
                /\ pc' = "run"
                /\ hist' = Observed("route", node, TRUE)
                /\ UNCHANGED eng
    /\ approved' = "none"
    /\ UNCHANGED <<run_mode, client, steps, lastMsg, cancelled, rounds, analyses, answered,
                   schema_rejections>>
    /\ UNCHANGED <<sessions, selected_databases, workflow_state, next_step, reviewed>>

\* the conditional edge of the node that just ran; an unmapped key or the
\* recursion limit raises inside workflow.invoke / workflow.stream, which
\* process_query and the stream generators answer with "workflow_failed"
Route ==
    /\ pc = "advance" /\ eng = "running"
    /\ LET r == RouteAfter(node, st)
           raised == \/ r.key \notin PathKeys(node)
                     \/ (PathTarget(r.key) # END /\ steps >= RecursionLimit)
       IN  IF raised
           THEN /\ st' = [r.st EXCEPT !.current_step = "workflow_failed"]
                /\ eng' = "ended"
                /\ pc' = IF run_mode = "stream" THEN "emit" ELSE "done"
                /\ hist' = Observed("raise", node, FALSE)
                /\ UNCHANGED node
           ELSE IF PathTarget(r.key) = END
           THEN /\ st' = r.st
                /\ eng' = "ended"
                /\ pc' = IF run_mode = "stream" THEN "finish" ELSE "done"
                /\ hist' = Observed("end", node, TRUE)
                /\ UNCHANGED node
           ELSE /\ st' = r.st
                /\ node' = PathTarget(r.key)
                /\ pc' = "run"
                /\ hist' = Observed("route", node, TRUE)
                /\ UNCHANGED eng
    /\ approved' = "none"
    /\ UNCHANGED <<run_mode, client, steps, lastMsg, cancelled, rounds, analyses, answered,
                   schema_rejections>>
    /\ UNCHANGED <<sessions, selected_databases, workflow_state, next_step, reviewed>>

\* _process_workflow_stream: next(stream) raises StopIteration
StreamExhausted ==
    /\ run_mode = "stream" /\ pc = "advance" /\ eng = "ended"
    /\ pc' = "finish"
    /\ hist' = Observed("exhausted", node, TRUE)
    /\ UNCHANGED <<run_mode, client, st, node, eng, steps, lastMsg, cancelled, rounds, analyses, approved, answered, schema_rejections>>
    /\ UNCHANGED <<sessions, selected_databases, workflow_state, next_step, reviewed>>

\* _process_workflow_stream: _send_state_update, then the HITL checkpoint test
\* and the hitl_request of _handle_hitl_checkpoint.  The stream that reached
\* the checkpoint is never advanced again (the session is cancelled or the
\* stream is replaced by resume_from_state), so its count of node executions
\* is dropped with it.
EmitStateUpdate ==
    /\ run_mode = "stream" /\ pc = "emit"
    /\ IF st.interaction_mode = "interactive" /\ st.pending_review # NoReview
       THEN lastMsg' = "hitl_request" /\ pc' = "hitl_wait" /\ steps' = 0
       ELSE lastMsg' = "state_update" /\ pc' = "check" /\ UNCHANGED steps
    /\ hist' = Relayed("emit")
    /\ UNCHANGED <<run_mode, client, st, node, eng, cancelled, rounds, analyses, approved, answered, schema_rejections>>
    /\ UNCHANGED <<sessions, selected_databases, workflow_state, next_step, reviewed>>

\* _handle_hitl_checkpoint: cancel while waiting for feedback
HitlCancel ==
    /\ pc = "hitl_wait"
    /\ lastMsg' = "cancelled"
    /\ cancelled' = TRUE
    /\ pc' = "done"
    /\ hist' = Observed("cancel", node, TRUE)
    /\ UNCHANGED <<run_mode, client, st, node, eng, steps, rounds, analyses, approved, answered, schema_rejections>>
    /\ UNCHANGED <<sessions, selected_databases, workflow_state, next_step, reviewed>>

\* _handle_hitl_checkpoint: a message that is no feedback for this checkpoint
HitlIgnore ==
    /\ pc = "hitl_wait"
    /\ \E message \in HitlMessages(client, st.pending_review.type, CheckpointId(rounds)) :
          /\ ~AcceptsFeedback(message, CheckpointId(rounds))
          /\ hist' = Observed(IF message.type = "hitl_feedback" THEN "redelivery" ELSE "ignore",
                              node, TRUE)
    /\ UNCHANGED <<run_mode, client, st, pc, node, eng, steps, lastMsg, cancelled, rounds,
                   analyses, approved, answered, schema_rejections>>
    /\ UNCHANGED <<sessions, selected_databases, workflow_state, next_step, reviewed>>

\* _handle_hitl_checkpoint: feedback for this checkpoint is applied,
\* acknowledged, and the workflow resumed from the updated state
HitlFeedback ==
    /\ pc = "hitl_wait"
    /\ rounds < MaxFeedbackRounds
    /\ rounds' = rounds + 1
    /\ \E message \in HitlMessages(client, st.pending_review.type, CheckpointId(rounds)) :
          /\ AcceptsFeedback(message, CheckpointId(rounds))
          /\ st' = [ApplyHitlFeedback(st, message.payload) EXCEPT !.pending_review = NoReview]
          /\ approved' = IF /\ message.payload.action = "approve"
                            /\ message.payload.review_type = st.pending_review.type
                         THEN message.payload.review_type ELSE "none"
          /\ answered' = [review |-> st.pending_review, payload |-> message.payload]
          /\ hist' = Observed(IF message.checkpointId = CheckpointId(rounds) THEN "feedback"
                              ELSE "redelivery", node, TRUE)
    /\ lastMsg' = "hitl_feedback_ack"
    /\ eng' = "resume"
    /\ pc' = "check"
    /\ UNCHANGED <<run_mode, client, node, steps, cancelled, analyses, schema_rejections>>
    /\ UNCHANGED <<sessions, selected_databases, workflow_state, next_step, reviewed>>

\* websocket_query: _send_final_result after the loop
SendFinalResult ==
    /\ run_mode = "stream" /\ pc = "finish"
    /\ lastMsg' = "final_result"
    /\ pc' = "done"
    /\ hist' = Observed("final", node, TRUE)
    /\ UNCHANGED <<run_mode, client, st, node, eng, steps, cancelled, rounds, analyses, approved, answered, schema_rejections>>
    /\ UNCHANGED <<sessions, selected_databases, workflow_state, next_step, reviewed>>

Next ==
    \/ CheckForCancellation
    \/ StartRun
    \/ StartResume
    \/ RunNode
    \/ Route
    \/ StreamExhausted
    \/ EmitStateUpdate
    \/ HitlCancel
    \/ HitlIgnore
    \/ HitlFeedback
    \/ SendFinalResult

Spec == Init /\ [][Next]_vars

----------------------------------------------------------------------------
(* Properties *)

\* a step that executes a stage
StageRuns == hist'.act = "run"

\* a step that takes a routing decision
RoutingDecision == hist'.act \in {"route", "end", "raise"}

\* C1: in a streaming session, once the engine has read a cancel message and
\* sent `cancelled`, it sends no state_update, hitl_request, hitl_feedback_ack
\* or final_result afterwards, runs no further stage and changes no field of
\* the session's workflow state.
C1_CancelledIsFinal ==
    [][lastMsg = "cancelled" =>
          /\ lastMsg' = "cancelled"
          /\ ~StageRuns
          /\ steps' = steps
          /\ st' = st]_vars

\* cancelled at the check of the stream loop, after stages have run
C1_Witness == lastMsg = "cancelled" /\ cancelled /\ steps > 0 /\ hist.act = "cancel"

\* the pipeline stage that follows the review of type T
StageAfterReview(T) == IF T = "databases" THEN "table_identifier" ELSE "column_identifier"

\* C2: in interactive streaming mode, feedback with action approve on a
\* pending review of type T (its item list is not empty) sets
\* human_approvals[T] to true and pending_review to null, and the first
\* pipeline stage of the resumed run is the one that follows review T,
\* whatever the feedback text and the other approval flags are: never
\* database_identifier or a review stage first.
C2_ApproveResumesAfterReview ==
    /\ [](approved # "none" =>
            /\ Get(st.human_approvals, approved, FALSE)
            /\ st.pending_review = NoReview)
    /\ [][(approved # "none" /\ pc = "advance" /\ eng = "running" /\ node = "router") =>
            (pc' = "run" /\ node' = StageAfterReview(approved))]_vars

\* C3: in every run, synchronous or streaming, pending_review is non-null
\* exactly while the workflow is suspended awaiting external feedback: once a
\* review stage has set it, no routing decision is taken and no stage runs
\* until feedback has been applied, and the step that applies the feedback
\* sets it to null.
C3_PendingIffSuspended ==
    /\ [](pc = "hitl_wait" => st.pending_review # NoReview)
    /\ [][st.pending_review # NoReview =>
            /\ ~StageRuns
            /\ ~RoutingDecision
            /\ (hist'.act = "feedback" => st'.pending_review = NoReview)]_vars

ReviewNodes == {"database_human_review", "table_human_review"}

\* C4: in a run whose interaction_mode is ask (every POST /query request is
\* one), neither review stage ever executes, pending_review is null and
\* human_approvals is as it was at the start, in every reachable state.
C4_AskNeverReviews ==
    st.interaction_mode = "ask" =>
        /\ node \notin ReviewNodes
        /\ st.pending_review = NoReview
        /\ st.human_approvals = EmptyDict
        /\ pc # "hitl_wait"

\* an ask run that has passed both identifiers without a review
C4_Witness ==
    /\ st.interaction_mode = "ask"
    /\ node = "column_identifier"
    /\ st.current_step = "column_identification_completed"

\* C5: when the validator's verdict is invalid with reason insufficient_data
\* and retries_left is 0 when the router after validation runs, the workflow
\* ends with no further stage executed; the final state has current_step
\* "max_retries_exhausted", still carries the generated query and has a
\* non-null user_message.
C5_ExhaustedRetriesEnd ==
    [][(/\ pc = "advance" /\ eng = "running" /\ node = "query_validator"
        /\ st.current_step = "query_validation_completed"
        /\ ~st.is_query_valid
        /\ st.issue_type = "insufficient_data"
        /\ st.retries_left = 0) =>
          (/\ eng' = "ended"
           /\ pc' \in {"finish", "done"}
           /\ steps' = steps
           /\ st'.current_step = "max_retries_exhausted"
           /\ st'.generated_query # "none"
           /\ st'.user_message # "none")]_vars

\* a run that ended on exhausted retries after an insufficient_data verdict
C5_Witness ==
    /\ eng = "ended"
    /\ st.current_step = "max_retries_exhausted"
    /\ st.issue_type = "insufficient_data"
    /\ st.retries_left = 0
    /\ st.user_message # "none"

\* a run that ended on an accepted query after two schema_missing rejections
TwiceRejectedThenAccepted ==
    /\ eng = "ended"
    /\ st.is_query_valid
    /\ schema_rejections = 2

\* C6: starting from retries_left = 3, a run in which the validator rejects
\* twice with reason schema_missing and accepts on the third validation ends
\* with is_query_valid = true and retries_left = 2.
C6_TwoRejectionsLeaveTwo ==
    TwiceRejectedThenAccepted => st.retries_left = 2

\* C6 as amended: such a run ends with retries_left = 1, each of the two
\* rejections having lowered retries_left by one.
C6_TwoRejectionsLeaveOne ==
    TwiceRejectedThenAccepted => st.retries_left = DefaultRetries - 2

C6_Witness ==
    /\ TwiceRejectedThenAccepted
    /\ st.current_step = "workflow_completed"
    /\ st.retries_left = 1

\* the restart point of a reason code
RestartStage(reason_code) ==
    CASE reason_code = "insufficient_data" -> "database_identifier"
      [] reason_code = "schema_missing"    -> "table_identifier"
      [] reason_code = "query_scope_issue" -> "database_identifier"
      [] reason_code \in {"sql_generation_issue", "data_type_mismatch",
                          "join_relationship_error"} -> "query_planner"
      [] OTHER -> "database_identifier"

\* the validator has rejected the query and retries are left
RejectedWithRetries ==
    /\ node = "query_validator"
    /\ st.current_step = "query_validation_completed"
    /\ ~st.is_query_valid
    /\ st.retries_left > 0

\* C7: after a validator rejection that leaves retries_left > 0 the next
\* stage is fixed by the reason code alone (insufficient_data, query_scope_issue,
\* unknown or any other value -> database_identifier; schema_missing ->
\* table_identifier; sql_generation_issue, data_type_mismatch,
\* join_relationship_error -> query_planner), for the live router and for the
\* restart point computed on resume.
C7_RestartByReasonCode ==
    /\ [][(pc = "advance" /\ eng = "running" /\ RejectedWithRetries
           /\ steps < RecursionLimit) =>
            (pc' = "run" /\ node' = RestartStage(st.issue_type))]_vars
    /\ [](RejectedWithRetries => DetermineResumeNode(st) = RestartStage(st.issue_type))
    /\ []((pc = "run" /\ hist.act = "route" /\ hist.node = "query_validator") =>
            DetermineResumeNode(st) = node)

\* C8: once is_query_valid is true in a run, no stage executes afterwards in
\* that run (a resume included) and is_query_valid never goes back to false.
C8_ValidIsTerminal ==
    [][st.is_query_valid => (st'.is_query_valid /\ ~StageRuns /\ steps' = steps)]_vars

\* a run that the validator's acceptance has ended
C8_Witness ==
    /\ st.is_query_valid
    /\ eng = "ended"
    /\ hist.act = "end" /\ hist.node = "query_validator"

\* the stages with a per-stage budget
BudgetStages == {"database_identifier", "table_identifier", "column_identifier",
                 "schema_builder", "query_planner", "query_generator",
                 "query_validator", "metadata_agent"}

\* a step in which stage n executes and fails
StageFails(n) == pc = "run" /\ node = n /\ hist'.act = "run" /\ ~hist'.ok

\* C9: for every stage s with a per-stage budget, each failed execution of s
\* while step_retries_left[s] > 0 lowers step_retries_left[s] by exactly 1
\* and marks the step as a retry; s is marked permanently failed only by a
\* failure that happens when step_retries_left[s] = 0 (with the default
\* budget of 2: on its third failure and not earlier).
C9_StageBudget ==
    [][\A n \in BudgetStages : StageFails(n) =>
          IF st.step_retries_left[n] > 0
          THEN /\ st'.step_retries_left[n] = st.step_retries_left[n] - 1
               /\ EndsWith(st'.current_step, "_retry")
               /\ st'.last_error_type = "step_retry"
          ELSE /\ st'.step_retries_left[n] = 0
               /\ EndsWith(st'.current_step, "_failed")]_vars

\* the stages the claim names as retried by the routing
RetriedStages == {"table_identifier", "column_identifier", "schema_builder", "metadata_agent"}

\* C10: after a transient failure of stage s (a failure with budget left) the
\* next stage executed is s itself, for table_identifier, column_identifier,
\* schema_builder and metadata_agent, and the retry routing does not abort
\* the run.
C10_TransientFailureReruns ==
    [][(/\ pc = "advance" /\ eng = "running" /\ node \in RetriedStages
        /\ EndsWith(st.current_step, "_retry")
        /\ steps < RecursionLimit) =>
          (pc' = "run" /\ node' = node /\ st'.current_step # "workflow_failed")]_vars

\* the stage that ran last is marked permanently failed
PermanentlyFailed(s) ==
    EndsWith(s.current_step, "_failed") \/ EndsWith(s.current_step, "_error")

\* C11: after any stage is marked permanently failed (current_step ending in
\* _failed or _error) the routing decision that follows ends the run: no
\* stage executes after a permanent failure, the failed stage included.
C11_PermanentFailureTerminates ==
    [][PermanentlyFailed(st) =>
          /\ ~StageRuns
          /\ (pc = "advance" /\ eng = "running") => (eng' = "ended" /\ hist'.act = "end")]_vars

\* C12: in every reachable state retries_left and every value of
\* step_retries_left are >= 0, and no step of a run, a resume from a
\* checkpointed state included, increases any of them.
C12_BudgetsNeverGrow ==
    /\ [](/\ st.retries_left >= 0
          /\ \A k \in DOMAIN st.step_retries_left : st.step_retries_left[k] >= 0)
    /\ [][/\ st'.retries_left <= st.retries_left
          /\ DOMAIN st'.step_retries_left = DOMAIN st.step_retries_left
          /\ \A k \in DOMAIN st.step_retries_left :
                st'.step_retries_left[k] <= st.step_retries_left[k]]_vars

\* a resumed run that has used up retries_left and the budget of a stage
C12_Witness ==
    /\ st.is_resuming
    /\ st.retries_left = 0
    /\ \E k \in DOMAIN st.step_retries_left : st.step_retries_left[k] = 0

\* the failure of the stage that ran last is booked as a retry or as a
\* permanent failure
FailureBooked(s) == EndsWith(s.current_step, "_retry") \/ PermanentlyFailed(s)

\* C13: synchronous process_query never raises to its caller and a stage
\* cannot crash the engine: a process call that raises or fails is booked as
\* that stage's retry or failure, the routing decision after the stage is
\* then taken on the resulting state, and every run that ends has returned
\* an AgentState to the caller.
C13_StageCannotCrashEngine ==
    /\ [][(run_mode = "sync" /\ StageRuns /\ ~hist'.ok) =>
            /\ FailureBooked(st')
            /\ pc' = "advance" /\ eng' = "running"]_vars
    /\ [](run_mode = "sync" =>
            /\ pc \in {"advance", "run", "done"}
            /\ (eng = "ended" <=> pc = "done"))

\* a synchronous run in which the routing agent's process call raised
C13_Witness ==
    /\ run_mode = "sync"
    /\ pc = "advance"
    /\ hist = Observed("run", "router", FALSE)
    /\ st.current_step = "routing_error"

\* a step in which the engine reads a hitl_feedback message it has applied
\* and acknowledged before
Redelivery == hist'.act = "redelivery"

\* C14: delivering a hitl_feedback payload (same checkpointId, action, items,
\* text) a second time, at any later point of the session, changes nothing:
\* no field of the workflow state changes, no acknowledgement is sent and the
\* workflow is not resumed a second time.
C14_RedeliveryChangesNothing ==
    [][Redelivery =>
          /\ st' = st
          /\ lastMsg' = lastMsg
          /\ rounds' = rounds
          /\ eng' = eng /\ node' = node /\ steps' = steps
          /\ pc' = IF pc = "hitl_wait" THEN "hitl_wait" ELSE "advance"]_vars

\* applied feedback is delivered again while a later checkpoint is pending
C14_Witness ==
    /\ hist.act = "redelivery"
    /\ pc = "hitl_wait"
    /\ rounds = 1
    /\ st.pending_review # NoReview

\* applied feedback is delivered again while the resumed run is streaming
C14_WitnessStreaming ==
    /\ hist.act = "redelivery"
    /\ pc = "advance" /\ eng = "running"
    /\ rounds = 1

\* the review stage of a review type
ReviewNode(T) == IF T = "databases" THEN "database_human_review" ELSE "table_human_review"

\* the stage that produces the list of a review type
Identifier(T) == IF T = "databases" THEN "database_identifier" ELSE "table_identifier"

\* a step that applies a feedback payload
FeedbackApplied == hist'.act = "feedback"

\* the first stage of a resumed run after its routing stage is about to execute
FirstResumedStage == answered # NoAnswer /\ pc = "run" /\ node # "router"

\* a payload without a review_type, or with one that is no review type
Malformed(payload) == payload.review_type \notin ReviewTypes

AnswersReview(a, action) ==
    /\ a # NoAnswer
    /\ a.payload.review_type = a.review.type
    /\ a.payload.action = action

\* C16: after feedback with action reject on a pending review of type T,
\* human_approvals[T] is false and human_feedback is cleared, and the next
\* stage executed is the stage that produced the list (database_identifier
\* for databases, table_identifier for tables), with or without feedback text.
C16_RejectRestartsIdentifier ==
    /\ [][(FeedbackApplied /\ AnswersReview(answered', "reject")) =>
            /\ Get(st'.human_approvals, answered'.review.type, TRUE) = FALSE
            /\ st'.human_feedback = "none"]_vars
    /\ [][(FirstResumedStage /\ AnswersReview(answered, "reject")) =>
            node = Identifier(answered.review.type)]_vars

\* the review stage that ran last has analysed a modify feedback and changed
\* the list with it (feedback_processed is set by that case alone)
ModifyChangedList ==
    /\ node \in ReviewNodes
    /\ hist.analysed
    /\ EndsWith(st.current_step, "_review_completed")
    /\ st.feedback_processed

\* the review stage is about to run again on a list a modify feedback has changed
ReviewOfChangedList ==
    /\ pc = "run" /\ node \in ReviewNodes
    /\ hist.act = "route" /\ hist.node = node

\* C17: when a modify feedback on a review of type T changes the list, by
\* add, by remove or by replace, the next stage is the review of the same
\* type T, which shows the updated list: the pipeline does not advance, the
\* identifier of T is not re-run and the updated list is not overwritten.
C17_ModifyRedisplaysList ==
    /\ [][(ModifyChangedList /\ pc = "advance" /\ eng = "running" /\ steps < RecursionLimit) =>
            /\ pc' = "run" /\ node' = node
            /\ st'["relevant_" \o ReviewType(node)] = st["relevant_" \o ReviewType(node)]]_vars
    /\ [][ReviewOfChangedList =>
            st'.pending_review = [type |-> ReviewType(node),
                                  items |-> st["relevant_" \o ReviewType(node)]]]_vars

\* the modification types a modify feedback can carry
ModificationTypes == {"replace", "add", "remove", "modify"}

\* a step in which a review stage analyses a modify feedback that leaves the
\* list as it is (approve and reject feedback leave other modification types)
ModifyWithoutChange ==
    /\ StageRuns /\ node \in ReviewNodes
    /\ hist'.analysed /\ hist'.ok
    /\ st'.last_modification_type \in ModificationTypes
    /\ st'["relevant_" \o ReviewType(node)] = st["relevant_" \o ReviewType(node)]

\* the review stage that ran last has promoted a modify feedback to an approval
PromotedModify ==
    /\ node \in ReviewNodes
    /\ hist.analysed
    /\ EndsWith(st.current_step, "_review_completed")
    /\ st.last_modification_type \in ModificationTypes
    /\ ~st.feedback_processed

\* C18: a modify feedback on a review of type T that results in no net change
\* of the list is promoted to an approval: human_approvals[T] becomes true,
\* human_feedback is cleared, and the routing decision advances to the next
\* pipeline stage instead of repeating the review.
C18_UnchangedModifyApproves ==
    /\ [][ModifyWithoutChange =>
            /\ Get(st'.human_approvals, ReviewType(node), FALSE)
            /\ st'.human_feedback = "none"
            /\ ~st'.feedback_processed]_vars
    /\ [][(PromotedModify /\ pc = "advance" /\ eng = "running" /\ steps < RecursionLimit) =>
            (pc' = "run" /\ node' = StageAfterReview(ReviewType(node)))]_vars

\* a modify feedback of type remove that matched nothing has been promoted
C18_Witness ==
    /\ PromotedModify
    /\ pc = "advance"
    /\ st.last_modification_type = "remove"
    /\ Get(st.human_approvals, ReviewType(node), FALSE)

\* a step in which a review stage processes feedback that suggests at least
\* one item that is not in the knowledge base
InvalidSuggestionProcessed == StageRuns /\ hist'.invalid /\ hist'.ok

\* C19: whenever processed feedback contains a suggested item that is not in
\* the knowledge base, the state the review stage leaves reports it:
\* human_feedback names the invalid items, for every approval status and
\* whether or not other changes were applied.
C19_InvalidSuggestionsReported ==
    [][InvalidSuggestionProcessed =>
          /\ st'.human_feedback # "none"
          /\ Contains(st'.human_feedback, "invalid not found")]_vars

----------------------------------------------------------------------------
(* Concurrent requests on the one workflow object.  POST /query is a plain
   `def` route: the server runs every request in a worker thread, and every
   request calls process_query on the object _get_workflow caches, so the
   requests share its agents.  Each request has its own AgentState; a thread
   switch can fall between any two statements, here between two stages and,
   inside TableIdentifier.process, between the store into
   self._selected_databases and the read of it in _retrieve_table_chunks. *)

engineVars == <<run_mode, client, st, pc, node, eng, steps, lastMsg, cancelled, rounds,
                analyses, approved, answered, schema_rejections, hist, workflow_state,
                next_step, reviewed>>

\* database lists the language model returns to the requests
SessionDbLists == {<<"d1">>, <<"d2">>}

\* what the language model can answer to a request at node n
SessionAnswers(n, s) ==
    IF n = "database_identifier"
    THEN {[DefaultAnswer EXCEPT !.names = l] : l \in SessionDbLists}
    ELSE Answers(n, s, "free", FALSE)

\* TableIdentifier.process gets past validate_state_prerequisites
StoresSelectedDatabases(n, s) == n = "table_identifier" /\ s.relevant_databases # <<>>

\* process_query: workflow.invoke starts the graph run of the request at router
SessionStart ==
    \E k \in Sessions :
       /\ sessions[k].pc = "start"
       /\ sessions' = [sessions EXCEPT ![k].pc = "run", ![k].node = "router"]
       /\ UNCHANGED selected_databases
       /\ UNCHANGED engineVars

\* a node handler of the request runs (for table_identifier: the run that
\* fails the prerequisites and stores nothing)
SessionRunNode ==
    \E k \in Sessions :
       /\ sessions[k].pc = "run"
       /\ ~StoresSelectedDatabases(sessions[k].node, sessions[k].st)
       /\ \E a \in SessionAnswers(sessions[k].node, sessions[k].st) :
             sessions' = [sessions EXCEPT
                            ![k].st = NodeHandler(sessions[k].node, sessions[k].st, a),
                            ![k].steps = sessions[k].steps + 1,
                            ![k].pc = "route"]
       /\ UNCHANGED selected_databases
       /\ UNCHANGED engineVars

\* TableIdentifier.process: self._selected_databases = state.relevant_databases
TableIdentifierStore ==
    \E k \in Sessions :
       /\ sessions[k].pc = "run"
       /\ StoresSelectedDatabases(sessions[k].node, sessions[k].st)
       /\ selected_databases' = sessions[k].st.relevant_databases
       /\ sessions' = [sessions EXCEPT ![k].pc = "prompt"]
       /\ UNCHANGED engineVars

\* TableIdentifier.process, from _create_table_identification_system_prompt on:
\* _retrieve_table_chunks reads self._selected_databases and searches the tables
\* of those databases for the prompt; the language model answers; _run_agent
\* applies the result
TableIdentifierPrompt ==
    \E k \in Sessions :
       /\ sessions[k].pc = "prompt"
       /\ \E a \in SessionAnswers("table_identifier", sessions[k].st) :
             sessions' = [sessions EXCEPT
                            ![k].prompt = selected_databases,
                            ![k].st = NodeHandler("table_identifier", sessions[k].st, a),
                            ![k].steps = sessions[k].steps + 1,
                            ![k].pc = "route"]
       /\ UNCHANGED selected_databases
       /\ UNCHANGED engineVars

\* the conditional edge of the node that just ran in the request (as Route)
SessionRoute ==
    \E k \in Sessions :
       /\ sessions[k].pc = "route"
       /\ LET n == sessions[k].node
              r == RouteAfter(n, sessions[k].st)
              raised == \/ r.key \notin PathKeys(n)
                        \/ (PathTarget(r.key) # END /\ sessions[k].steps >= RecursionLimit)
          IN  sessions' =
                 [sessions EXCEPT
                    ![k].st = IF raised THEN [r.st EXCEPT !.current_step = "workflow_failed"]
                              ELSE r.st,
                    ![k].node = IF raised \/ PathTarget(r.key) = END THEN n
                                ELSE PathTarget(r.key),
                    ![k].pc = IF raised \/ PathTarget(r.key) = END THEN "done" ELSE "run"]
       /\ UNCHANGED selected_databases
       /\ UNCHANGED engineVars

InitSessions ==
    /\ run_mode = "sync"
    /\ st = InitialState("ask", FALSE)
    /\ Init

NextSessions ==
    \/ SessionStart
    \/ SessionRunNode
    \/ TableIdentifierStore
    \/ TableIdentifierPrompt
    \/ SessionRoute

SpecSessions == InitSessions /\ [][NextSessions]_vars

\* the databases whose tables request k's running table identification is about
\* to search for its prompt
PromptSource(k) == IF sessions[k].pc = "prompt" THEN selected_databases ELSE <<>>

\* C20: two requests interleaved on the one workflow are isolated: a step that is
\* not request k's own changes no field of k's workflow state (its retries_left,
\* step_retries_left, human_approvals, pending_review and all the others) and
\* nothing that k's running stage reads next, the requests sharing nothing
\* mutable
C20_SessionsIsolated ==
    [][\A k \in Sessions :
          sessions'[k] = sessions[k] => PromptSource(k)' = PromptSource(k)]_vars

----------------------------------------------------------------------------
(* The synchronous run on its own: process_query calls workflow.invoke, which
   runs node after node in the caller's thread until the graph ends or raises;
   nothing suspends it, so a step that can be taken is taken. *)

InitSync == run_mode = "sync" /\ Init

NextSync ==
    \/ StartRun
    \/ RunNode
    \/ Route

\* a step of the run is due: the guards of RunNode, StartRun and Route (every
\* node has an answer to run on, so these are the states with a next step)
SyncStepDue == pc = "run" \/ (pc = "advance" /\ eng \in {"fresh", "running"})

\* the run moves on; every step of NextSync changes pc
SyncStep == SyncStepDue /\ pc' \in {"run", "advance", "done"} /\ pc' # pc

SpecSync == InitSync /\ [][NextSync]_vars /\ WF_pc(SyncStep)

\* C21: every synchronous process_query run terminates, whatever the stages and
\* the validator answer and in either interaction mode: the stage/router loop
\* stops after at most 20 stage executions and a final state is returned
C21_SyncRunTerminates ==
    /\ [](steps <= RecursionLimit)
    /\ <>(pc = "done" /\ eng = "ended")

\* a run that the recursion limit stopped after its 20th stage
C21_Witness ==
    /\ pc = "done" /\ eng = "ended" /\ steps = RecursionLimit
    /\ hist.act = "raise" /\ st.current_step = "workflow_failed"

----------------------------------------------------------------------------
\* metadata_agent has completed successfully and its conditional edge is evaluated
MetadataCompletedRouting ==
    /\ RoutingDecision
    /\ node = "metadata_agent"
    /\ st.current_step = "metadata_completed"

\* C22: the metadata branch terminates the workflow: once metadata_agent has
\* completed successfully, also after one or two transient failures of it, the
\* run ends with current_step = "metadata_completed" and no stage runs afterwards
C22_MetadataBranchTerminates ==
    [][MetadataCompletedRouting =>
          /\ hist'.act = "end"
          /\ eng' = "ended"
          /\ st'.current_step = "metadata_completed"]_vars

----------------------------------------------------------------------------
\* the conditional edge of the node that just ran is about to be evaluated
AtRoutingDecision == pc = "advance" /\ eng = "running"

\* C23: every routing function is pure: evaluating it on the state of a run
\* changes no field of the state, and evaluating it a second time on the same
\* state object returns the same next stage
C23_RoutersArePure ==
    AtRoutingDecision =>
        /\ RouteAfter(node, st).st = st
        /\ RouteAfter(node, RouteAfter(node, st).st).key = RouteAfter(node, st).key

----------------------------------------------------------------------------
(* The legacy query workflow (lang2query/core/workflow.py): its routing
   function should_continue, applied to any WorkflowState *)

\* generated.confidence > 0.5
AboveHalf(c) == 2 * c > ConfidenceScale

\* as ShouldContinue, but the test is confidence >= 0.5
ShouldContinueInclusive(state) ==
    IF state.generated_query.type = "SQLQuery"
    THEN IF 2 * state.generated_query.confidence >= ConfidenceScale THEN "validate_query"
         ELSE "format_response"
    ELSE "generate_query"

\* should_continue
ShouldContinue(state) ==
    IF state.generated_query.type = "SQLQuery"
    THEN IF AboveHalf(state.generated_query.confidence) THEN "validate_query"
         ELSE "format_response"
    ELSE "generate_query"

\* the conditional edge after parse_schema evaluates should_continue
EvaluateShouldContinue ==
    /\ next_step = "none"
    /\ next_step' = ShouldContinue(workflow_state)
    /\ UNCHANGED <<run_mode, client, st, pc, node, eng, steps, lastMsg, cancelled, rounds,
                   analyses, approved, answered, schema_rejections, hist, sessions,
                   selected_databases, workflow_state, reviewed>>

InitLegacy ==
    /\ run_mode = "sync"
    /\ st = InitialState("ask", FALSE)
    /\ InitEngine
    /\ sessions = [k \in Sessions |-> NewSession]
    /\ selected_databases = <<>>
    /\ workflow_state \in WorkflowStates
    /\ next_step = "none"

NextLegacy == EvaluateShouldContinue

SpecLegacy == InitLegacy /\ [][NextLegacy]_vars

\* C24: should_continue returns "validate_query" exactly when the state holds a
\* generated SQLQuery with confidence > 0.5, "format_response" exactly when it
\* holds one with confidence <= 0.5, "generate_query" when no SQLQuery has been
\* generated, and so one of the three for every state
C24_ShouldContinue ==
    next_step # "none" =>
        LET generated == workflow_state.generated_query
            is_query == generated.type = "SQLQuery"
        IN  /\ next_step \in {"validate_query", "format_response", "generate_query"}
            /\ next_step = "validate_query" <=>
                  (is_query /\ 2 * generated.confidence > ConfidenceScale)
            /\ next_step = "format_response" <=>
                  (is_query /\ 2 * generated.confidence <= ConfidenceScale)
            /\ ~is_query => next_step = "generate_query"

\* a query whose confidence is exactly 0.5 goes to format_response
C24_Witness ==
    /\ next_step = "format_response"
    /\ workflow_state.generated_query.type = "SQLQuery"
    /\ 2 * workflow_state.generated_query.confidence = ConfidenceScale

----------------------------------------------------------------------------
\* C25: the per-stage budget and the workflow-level budget are independent: a
\* failure of any stage, the validator included (an exception or a result with
\* success = false), leaves retries_left unchanged; retries_left decreases only
\* when the validator ran successfully and returned an invalid verdict
C25_BudgetsIndependent ==
    [][/\ (StageRuns /\ ~hist'.ok) => st'.retries_left = st.retries_left
       /\ st'.retries_left < st.retries_left =>
             /\ StageRuns /\ node = "query_validator"
             /\ hist'.ok /\ ~st'.is_query_valid]_vars

----------------------------------------------------------------------------
\* a stage of an interactive session is about to run
InteractiveStageStarts(n) ==
    st.interaction_mode = "interactive" /\ pc = "run" /\ node = n

\* the conditional edge of stage n has just led to the stage about to run
RoutedFrom(n) == hist.act = "route" /\ hist.node = n

\* C26: in interactive mode the pipeline never passes a reviewable stage without
\* the review: table_identifier never runs directly after database_identifier
\* and column_identifier never directly after table_identifier; whenever
\* column_identifier starts (resp. table_identifier for the first time after a
\* database identification), the review stage of the tables (resp. databases)
\* has run since the last identification and human_approvals holds true for it
C26_NoStagePassesItsReview ==
    /\ InteractiveStageStarts("table_identifier") =>
          /\ ~RoutedFrom("database_identifier")
          /\ "table_identifier" \notin reviewed =>
                /\ "database_human_review" \in reviewed
                /\ Get(st.human_approvals, "databases", FALSE)
    /\ InteractiveStageStarts("column_identifier") =>
          /\ ~RoutedFrom("table_identifier")
          /\ "table_human_review" \in reviewed
          /\ Get(st.human_approvals, "tables", FALSE)

\* column_identifier starts in a session whose two reviews the client approved
C26_Witness ==
    /\ InteractiveStageStarts("column_identifier")
    /\ {"database_human_review", "table_human_review"} \subseteq reviewed
    /\ st.relevant_databases # <<>> /\ st.relevant_tables # <<>>
    /\ Get(st.human_approvals, "tables", FALSE)
    /\ rounds >= 2

----------------------------------------------------------------------------
\* the decision the router after stage n takes on state s in a run that was
\* never resumed
FreshDecision(n, s) == RouteAfter(n, [s EXCEPT !.is_resuming = FALSE]).key

\* C27: on resume the first decision of the router returns resume_start_node and
\* is_resuming is false from then on, so that every later routing decision of
\* the resumed run is the one of a fresh run: a transient failure of
\* database_identifier or table_identifier is retried exactly as in a run that
\* was never resumed
C27_ResumeFlagIsCleared ==
    [][RoutingDecision =>
          /\ (node = "router" /\ st.is_resuming) =>
                /\ RouteAfter(node, st).key = st.resume_start_node
                /\ ~st'.is_resuming
          /\ node \in {"database_identifier", "table_identifier"} =>
                RouteAfter(node, st).key = FreshDecision(node, st)]_vars

----------------------------------------------------------------------------
(* The ask-mode run in which every stage succeeds and the validator rejects
   every query: the synchronous run with the answers of the stages restricted
   to those *)

InitRejecting ==
    /\ run_mode = "sync"
    /\ st = InitialState("ask", FALSE)
    /\ Init

\* a stage of a data query runs and succeeds; the query is not accepted
RunNodeRejected ==
    /\ RunNode
    /\ hist'.ok
    /\ ~st'.is_metadata_query
    /\ ~st'.is_query_valid

NextRejecting ==
    \/ StartRun
    \/ RunNodeRejected
    \/ Route

SpecRejecting == InitRejecting /\ [][NextRejecting]_vars

\* C28: in ask mode, when every stage succeeds and the validator rejects every
\* query, the run always ends through budget exhaustion (current_step =
\* "max_retries_exhausted" after the third rejection) and never through the step
\* cap of 20, whatever the reason codes of the rejections
C28_RejectionsEndByExhaustion ==
    eng = "ended" =>
        /\ hist.act = "end"
        /\ st.current_step = "max_retries_exhausted"
        /\ st.retries_left = 0
        /\ steps <= RecursionLimit

----------------------------------------------------------------------------
\* the review stage of type T is about to run on a non-empty list in an
\* interactive session
ReviewStarts(T) ==
    /\ InteractiveStageStarts(ReviewNode(T))
    /\ st["relevant_" \o T] # <<>>

\* human_feedback is what the client sent in answer to a pending review of type T
AnswerToReview(T) ==
    /\ answered # NoAnswer
    /\ answered.review.type = T
    /\ st.human_feedback = answered.payload.feedback_text

\* C29: feedback is consumed only by the review it was given for: in interactive
\* mode a review stage of type T that finds a non-empty list emits a
\* pending_review and asks the human, unless human_feedback was supplied by the
\* client in answer to a pending review of that same type; the text sent with a
\* databases approval and the "no_items" marker of an empty list are never
\* processed by a later tables review as the human's answer
C29_FeedbackOnlyForItsReview ==
    \A T \in ReviewTypes :
       (ReviewStarts(T) /\ Analyses(ReviewNode(T), st)) => AnswerToReview(T)

----------------------------------------------------------------------------
\* the items of a sequence
Items(list) == {list[i] : i \in 1..Len(list)}

\* after the step every item of relevant_T was in the list before the step or
\* exists in the knowledge base
OnlyValidatedItems(T) ==
    \A item \in Items(st'["relevant_" \o T]) :
       \/ item \in Items(st["relevant_" \o T])
       \/ ValidateItemWithRetriever(T, item, st')

\* C30: no unvalidated item is ever accepted into a reviewed list: after feedback
\* is applied to a review of type T, by the transport (approved items) or by the
\* review stage (add, remove, replace), every item of relevant_T was in the list
\* before the feedback or has been confirmed to exist in the knowledge base
C30_OnlyValidatedItemsAccepted ==
    [][/\ FeedbackApplied => OnlyValidatedItems(st.pending_review.type)
       /\ (StageRuns /\ hist'.analysed /\ hist'.ok) => OnlyValidatedItems(ReviewType(node))]_vars

====
